---- MODULE Spec2Model ----
(***************************************************************************)
(* A model of the log engine of juanlogs.nvim (src/src/lib.rs): a line     *)
(* indexed piece table over a read-only mapped file, with an append-only   *)
(* edit buffer, block extraction, forward/backward search and save.        *)
(*                                                                         *)
(* Bytes are integers; byte strings are sequences of bytes.  Indices into  *)
(* the mapping, the piece table and the edit buffer are 0-based as in the  *)
(* source; a TLA+ sequence s holds the source's s[i] at s[i + 1].          *)
(***************************************************************************)
EXTENDS Integers, Sequences, FiniteSets, TLC

\* ------------------------------------------------------------------ bytes

\* b'\n' and b'\r'
LF == 10
CR == 13

\* The letters the files, texts and queries of the model are written in.
Letter == [a |-> 97, b |-> 98, f |-> 102, o |-> 111, r |-> 114]

\* ----------------------------------------------------------------- bounds

\* Longest file that is opened.
MaxFileLen == 3
\* Number of apply_edit calls in one run.
MaxEdits == 1
\* Largest delete count and largest block length passed by the host.
MaxCount == 2
\* The scaled-down window size of the chunk index.
SmallChunk == 2

\* let chunk_size = 1024 * 1024
ChunkSize == 1048576

\* Bytes a file is made of.
FileBytes == {Letter.a, LF, CR}

\* All byte strings over S of length at most n.
RECURSIVE SeqsUpTo(_, _)
SeqsUpTo(S, n) ==
    IF n = 0 THEN {<<>>}
    ELSE LET shorter == SeqsUpTo(S, n - 1)
         IN  shorter \cup {Append(s, x) : s \in {t \in shorter : Len(t) = n - 1}, x \in S}

Files == SeqsUpTo(FileBytes, MaxFileLen)

\* Window sizes of the chunk index: the source's 1 MiB, which keeps every
\* file of the model in a single window, and a window scaled down to the
\* files of the model, which splits them as 1 MiB splits a larger file.
ChunkSizes == {SmallChunk, ChunkSize}

\* Texts the host passes to apply_edit: "", "\n", "b\n" and "a\nb\ra" (two
\* lines, the second holding a CR, no LF at the end).
Texts == {<<>>, <<LF>>, <<Letter.b, LF>>, <<Letter.a, LF, Letter.b, CR, Letter.a>>}

\* Queries the host passes to the searches.
Queries == {<<Letter.a>>, <<Letter.b>>}

\* Queries with and without a terminator byte: "a" and "\na".
BreakQueries == {<<Letter.a>>, <<LF, Letter.a>>}

\* The file, the texts and the queries of the worked example of a backward
\* search across pieces: "foo\nbar\nfoo\n", "foo\n", "foo" and "bar".
Foo == <<Letter.f, Letter.o, Letter.o>>
Bar == <<Letter.b, Letter.a, Letter.r>>
ScenarioFile == Foo \o <<LF>> \o Bar \o <<LF>> \o Foo \o <<LF>>
ScenarioTexts == {<<>>, Foo \o <<LF>>, Bar \o <<LF>>}
ScenarioQueries == {Foo, Bar}

Min(a, b) == IF a < b THEN a ELSE b
Max(a, b) == IF a > b THEN a ELSE b

\* s[from .. to) with 0-based offsets, as the source's &s[from..to].
Slice(s, from, to) == SubSeq(s, from + 1, to)

\* --------------------------------------------------------- byte searching

\* memchr2(b'\n', b'\r', &m[from..]): the absolute offset of the first LF
\* or CR at or after from, or -1.
RECURSIVE memchr2(_, _)
memchr2(m, from) ==
    IF from >= Len(m) THEN -1
    ELSE IF m[from + 1] \in {LF, CR} THEN from
    ELSE memchr2(m, from + 1)

\* The terminator count of one window: every LF or CR counts once, and a
\* CR directly followed by LF inside the same slice counts once for both.
RECURSIVE CountFrom(_, _)
CountFrom(chunk, from) ==
    LET pos == memchr2(chunk, from)
    IN  IF pos < 0 THEN 0
        ELSE IF chunk[pos + 1] = CR /\ pos + 1 < Len(chunk) /\ chunk[pos + 2] = LF
             THEN 1 + CountFrom(chunk, pos + 2)
             ELSE 1 + CountFrom(chunk, pos + 1)

CountTerminators(chunk) == CountFrom(chunk, 0)

\* ------------------------------------------------------------ chunk index

NumChunks(m, cs) == (Len(m) + cs - 1) \div cs

\* The i-th window of par_chunks(chunk_size).
ChunkBytes(m, cs, i) == Slice(m, i * cs, Min((i + 1) * cs, Len(m)))

\* The loop over the per-window counts without the adjustment for a CR LF
\* pair that lies across two windows.
RECURSIVE BuildChunks_no_boundary_fix(_, _, _)
BuildChunks_no_boundary_fix(m, cs, n) ==
    IF n = 0 THEN [chunks |-> <<>>, current_line |-> 0]
    ELSE LET prev == BuildChunks_no_boundary_fix(m, cs, n - 1)
             i == n - 1
         IN  [chunks |-> Append(prev.chunks,
                                [byte_offset |-> i * cs, start_line |-> prev.current_line]),
              current_line |-> prev.current_line + CountTerminators(ChunkBytes(m, cs, i))]

\* The loop over the per-window counts: the state after windows 0 .. n-1 is
\* the checkpoints pushed so far and current_line.
RECURSIVE BuildChunks(_, _, _)
BuildChunks(m, cs, n) ==
    IF n = 0 THEN [chunks |-> <<>>, current_line |-> 0]
    ELSE LET prev == BuildChunks(m, cs, n - 1)
             i == n - 1
             byte_offset == i * cs
             straddle == i > 0 /\ m[byte_offset] = CR /\ m[byte_offset + 1] = LF
             line == IF straddle THEN prev.current_line - 1 ELSE prev.current_line
         IN  [chunks |-> Append(prev.chunks,
                                [byte_offset |-> byte_offset, start_line |-> line]),
              current_line |-> line + CountTerminators(ChunkBytes(m, cs, i))]

\* original_total_lines as computed after the loop.
OriginalTotalLines(m, cs) ==
    LET current_line == BuildChunks(m, cs, NumChunks(m, cs)).current_line
        last_byte == m[Len(m)]
        counted == IF Len(m) > 0 /\ last_byte # LF /\ last_byte # CR
                   THEN current_line + 1 ELSE current_line
    IN  IF Len(m) > 0 /\ counted = 0 THEN 1 ELSE counted

Original(start_line, line_count) ==
    [kind |-> "Original", start |-> start_line, line_count |-> line_count]

Memory(start_idx, line_count) ==
    [kind |-> "Memory", start |-> start_idx, line_count |-> line_count]

\* How binary_search_by_key resolves several checkpoints with the same
\* start_line: the library leaves the choice among the matches open.
Picks == {"lowest", "highest"}

\* LogEngine::new: the engine value built from the bytes of a file.
NewEngine(m, cs, pk) ==
    LET otl == OriginalTotalLines(m, cs)
    IN  [mmap |-> m,
         chunks |-> BuildChunks(m, cs, NumChunks(m, cs)).chunks,
         original_total_lines |-> otl,
         pieces |-> <<Original(0, otl)>>,
         memory_buffer |-> <<>>,
         pick |-> pk]

\* ---------------------------------------------------------- line resolver

\* self.chunks.binary_search_by_key(&line, |c| c.start_line) followed by
\* Ok(idx) => idx, Err(idx) => idx.saturating_sub(1).  The checkpoints are
\* sorted by start_line; on a miss the insertion point is the number of
\* checkpoints below the key.
BinarySearchChunk(e, line) ==
    LET n == Len(e.chunks)
        hits == {i \in 0 .. n - 1 : e.chunks[i + 1].start_line = line}
        below == Cardinality({i \in 0 .. n - 1 : e.chunks[i + 1].start_line < line})
    IN  IF hits # {}
        THEN IF e.pick = "lowest"
             THEN CHOOSE i \in hits : \A j \in hits : i <= j
             ELSE CHOOSE i \in hits : \A j \in hits : i >= j
        ELSE Max(below - 1, 0)

\* The while loop of line_to_byte_offset: skip `skip` terminators from offset.
RECURSIVE SkipLines(_, _, _)
SkipLines(m, offset, skip) ==
    IF skip > 0 /\ offset < Len(m)
    THEN LET pos == memchr2(m, offset)
         IN  IF pos >= 0
             THEN LET after == pos + 1
                      next == IF m[pos + 1] = CR /\ after < Len(m) /\ m[after + 1] = LF
                              THEN after + 1 ELSE after
                  IN  SkipLines(m, next, skip - 1)
             ELSE Len(m)
    ELSE offset

line_to_byte_offset(e, line) ==
    IF line >= e.original_total_lines THEN Len(e.mmap)
    ELSE LET chunk == e.chunks[BinarySearchChunk(e, line) + 1]
         IN  SkipLines(e.mmap, chunk.byte_offset, line - chunk.start_line)

\* &self.mmap[start..end] of get_original_bytes; the slice expression
\* panics when start > end.
OriginalBytesPanics(e, start_line, line_count) ==
    /\ line_count > 0
    /\ line_to_byte_offset(e, start_line) > line_to_byte_offset(e, start_line + line_count)

get_original_bytes(e, start_line, line_count) ==
    IF line_count = 0 THEN <<>>
    ELSE Slice(e.mmap, line_to_byte_offset(e, start_line),
               line_to_byte_offset(e, start_line + line_count))

\* ------------------------------------------------------------ piece table

RECURSIVE SumCounts(_)
SumCounts(ps) ==
    IF ps = <<>> THEN 0 ELSE Head(ps).line_count + SumCounts(Tail(ps))

total_lines(e) == SumCounts(e.pieces)

\* The loop of find_piece_idx from piece i with `current` lines before it.
RECURSIVE FindFrom(_, _, _, _)
FindFrom(ps, logical_line, i, current) ==
    IF i >= Len(ps) THEN <<Len(ps), 0>>
    ELSE LET count == ps[i + 1].line_count
         IN  IF logical_line < current + count
             THEN <<i, logical_line - current>>
             ELSE FindFrom(ps, logical_line, i + 1, current + count)

\* <<piece_index, line_offset_inside_piece>>
find_piece_idx(e, logical_line) == FindFrom(e.pieces, logical_line, 0, 0)

\* Vec::insert(idx, x) and Vec::remove(idx), 0-based.
Insert(s, idx, x) == SubSeq(s, 1, idx) \o <<x>> \o SubSeq(s, idx + 1, Len(s))
Remove(s, idx) == SubSeq(s, 1, idx) \o SubSeq(s, idx + 2, Len(s))

\* split_piece_at with the right half left at the start of the piece split.
split_piece_at_same_start(ps, piece_idx, offset) ==
    IF offset = 0 \/ piece_idx >= Len(ps) THEN ps
    ELSE LET piece == ps[piece_idx + 1]
         IN  IF offset >= piece.line_count THEN ps
             ELSE Insert([ps EXCEPT ![piece_idx + 1].line_count = offset],
                         piece_idx + 1,
                         [piece EXCEPT !.line_count = piece.line_count - offset])

\* split_piece_at with the right half given the line count of the whole
\* piece.
split_piece_at_full_count(ps, piece_idx, offset) ==
    IF offset = 0 \/ piece_idx >= Len(ps) THEN ps
    ELSE LET piece == ps[piece_idx + 1]
         IN  IF offset >= piece.line_count THEN ps
             ELSE Insert([ps EXCEPT ![piece_idx + 1].line_count = offset],
                         piece_idx + 1,
                         [piece EXCEPT !.start = piece.start + offset])

\* split_piece_at on a piece table: the new piece table.
split_piece_at(ps, piece_idx, offset) ==
    IF offset = 0 \/ piece_idx >= Len(ps) THEN ps
    ELSE LET piece == ps[piece_idx + 1]
         IN  IF offset >= piece.line_count THEN ps
             ELSE Insert([ps EXCEPT ![piece_idx + 1].line_count = offset],
                         piece_idx + 1,
                         [piece EXCEPT !.start = piece.start + offset,
                                       !.line_count = piece.line_count - offset])

\* The deletion loop of apply_edit at piece_idx.
RECURSIVE DeleteLoop(_, _, _)
DeleteLoop(ps, piece_idx, remaining_delete) ==
    IF remaining_delete > 0 /\ piece_idx < Len(ps)
    THEN LET count == ps[piece_idx + 1].line_count
         IN  IF count <= remaining_delete
             THEN DeleteLoop(Remove(ps, piece_idx), piece_idx, remaining_delete - count)
             ELSE Remove(split_piece_at(ps, piece_idx, remaining_delete), piece_idx)
    ELSE ps

\* new_text.split('\n'): the pieces between the LF bytes (at least one).
RECURSIVE SplitLF(_)
SplitLF(text) ==
    IF \A i \in 1 .. Len(text) : text[i] # LF THEN <<text>>
    ELSE LET k == CHOOSE i \in 1 .. Len(text) :
                      text[i] = LF /\ \A j \in 1 .. i - 1 : text[j] # LF
         IN  <<SubSeq(text, 1, k - 1)>> \o SplitLF(SubSeq(text, k + 1, Len(text)))

\* The lines apply_edit appends to the edit buffer for new_text.
EditLines(new_text) ==
    IF new_text = <<>> THEN <<>>
    ELSE LET lines == SplitLF(new_text)
         IN  IF lines[Len(lines)] = <<>> THEN SubSeq(lines, 1, Len(lines) - 1)
             ELSE lines

\* LogEngine::apply_edit: the engine afterwards.
apply_edit(e, start_line, num_deleted, new_text) ==
    LET found == find_piece_idx(e, start_line)
        offset == found[2]
        split == IF found[1] < Len(e.pieces)
                 THEN split_piece_at(e.pieces, found[1], offset)
                 ELSE e.pieces
        piece_idx == IF found[1] < Len(e.pieces) /\ offset > 0
                     THEN found[1] + 1 ELSE found[1]
        kept == DeleteLoop(split, piece_idx, num_deleted)
        lines == EditLines(new_text)
    IN  IF lines # <<>>
        THEN [e EXCEPT !.memory_buffer = e.memory_buffer \o lines,
                       !.pieces = Insert(kept, piece_idx,
                                         Memory(Len(e.memory_buffer), Len(lines)))]
        ELSE [e EXCEPT !.pieces = kept]

\* ------------------------------------------------------- block extraction

\* String::from_utf8_lossy on a byte string whose bytes of 128 and above
\* stand alone: each of them is replaced by U+FFFD (EF BF BD), ASCII bytes
\* are kept.
RECURSIVE Lossy(_)
Lossy(bytes) ==
    IF bytes = <<>> THEN <<>>
    ELSE (IF Head(bytes) < 128 THEN <<Head(bytes)>> ELSE <<239, 191, 189>>)
         \o Lossy(Tail(bytes))

\* The for loop of a Memory piece: `take` lines from buffer index `from`,
\* each followed by LF.
RECURSIVE PushMemoryLines(_, _, _)
PushMemoryLines(buf, from, take) ==
    IF take = 0 THEN <<>>
    ELSE buf[from + 1] \o <<LF>> \o PushMemoryLines(buf, from + 1, take - 1)

\* The while loop of get_block without the LF pushed after the bytes of an
\* Original piece.
RECURSIVE BlockLoop_no_lf(_, _, _, _, _, _)
BlockLoop_no_lf(e, block, collected, piece_idx, offset, num_lines) ==
    IF collected < num_lines /\ piece_idx < Len(e.pieces)
    THEN LET piece == e.pieces[piece_idx + 1]
             take == Min(piece.line_count - offset, num_lines - collected)
             start_byte == line_to_byte_offset(e, piece.start + offset)
             end_byte == line_to_byte_offset(e, piece.start + offset + take)
             next == IF piece.kind = "Original"
                     THEN block \o Lossy(Slice(e.mmap, start_byte, end_byte))
                     ELSE block \o PushMemoryLines(e.memory_buffer,
                                                   piece.start + offset, take)
         IN  BlockLoop_no_lf(e, next, collected + take, piece_idx + 1, 0, num_lines)
    ELSE [block |-> block, panic |-> FALSE]

\* The while loop of get_block; `block` is last_block so far.  The result
\* is last_block after the loop and whether an index or a slice range of
\* the loop was out of bounds.
RECURSIVE BlockLoop(_, _, _, _, _, _)
BlockLoop(e, block, collected, piece_idx, offset, num_lines) ==
    IF collected < num_lines /\ piece_idx < Len(e.pieces)
    THEN LET piece == e.pieces[piece_idx + 1]
             count == piece.line_count - offset
             take == Min(count, num_lines - collected)
             start_byte == line_to_byte_offset(e, piece.start + offset)
             end_byte == line_to_byte_offset(e, piece.start + offset + take)
             pushed == block \o Lossy(Slice(e.mmap, start_byte, end_byte))
             bad == IF piece.kind = "Original" THEN start_byte > end_byte
                    ELSE piece.start + offset + take > Len(e.memory_buffer)
             next == IF piece.kind = "Original"
                     THEN IF pushed # <<>> /\ pushed[Len(pushed)] # LF
                          THEN Append(pushed, LF) ELSE pushed
                     ELSE block \o PushMemoryLines(e.memory_buffer,
                                                   piece.start + offset, take)
         IN  IF bad THEN [block |-> block, panic |-> TRUE]
             ELSE BlockLoop(e, next, collected + take, piece_idx + 1, 0, num_lines)
    ELSE [block |-> block, panic |-> FALSE]

\* LogEngine::get_block: the pointer is null or points at last_block.
get_block(e, start_line, num_lines) ==
    IF num_lines = 0 \/ start_line >= total_lines(e)
    THEN [null |-> TRUE, block |-> <<>>, panic |-> FALSE]
    ELSE LET found == find_piece_idx(e, start_line)
             r == BlockLoop(e, <<>>, 0, found[1], found[2], num_lines)
         IN  [null |-> FALSE, block |-> r.block, panic |-> r.panic]

\* ----------------------------------------------------------------- search

MatchesAt(bytes, q, pos) ==
    /\ pos + Len(q) <= Len(bytes)
    /\ \A k \in 1 .. Len(q) : bytes[pos + k] = q[k]

\* memmem::find and memmem::rfind: the offset of the first (last)
\* occurrence of q in bytes, or -1.
Find(bytes, q) ==
    LET at == {pos \in 0 .. Len(bytes) - 1 : MatchesAt(bytes, q, pos)}
    IN  IF at = {} THEN -1 ELSE CHOOSE pos \in at : \A o \in at : pos <= o

RFind(bytes, q) ==
    LET at == {pos \in 0 .. Len(bytes) - 1 : MatchesAt(bytes, q, pos)}
    IN  IF at = {} THEN -1 ELSE CHOOSE pos \in at : \A o \in at : pos >= o

\* str::contains
Contains(line, q) == Find(line, q) >= 0 \/ q = <<>>

\* The while loop of log_engine_search.
RECURSIVE SearchLoop(_, _, _, _, _)
SearchLoop(e, q, piece_idx, offset, current_logical) ==
    IF piece_idx < Len(e.pieces)
    THEN LET piece == e.pieces[piece_idx + 1]
             bytes == get_original_bytes(e, piece.start + offset,
                                         piece.line_count - offset)
             pos == Find(bytes, q)
             hits == {i \in offset .. piece.line_count - 1 :
                         Contains(e.memory_buffer[piece.start + i + 1], Lossy(q))}
             bad == IF piece.kind = "Original"
                    THEN OriginalBytesPanics(e, piece.start + offset,
                                             piece.line_count - offset)
                    ELSE piece.start + piece.line_count > Len(e.memory_buffer)
         IN  IF bad THEN [value |-> -1, panic |-> TRUE]
             ELSE IF piece.kind = "Original" /\ pos >= 0
             THEN [value |-> current_logical + CountTerminators(Slice(bytes, 0, pos)),
                   panic |-> FALSE]
             ELSE IF piece.kind = "Memory" /\ hits # {}
             THEN [value |-> current_logical
                             + (CHOOSE i \in hits : \A j \in hits : i <= j) - offset,
                   panic |-> FALSE]
             ELSE SearchLoop(e, q, piece_idx + 1, 0,
                             current_logical + piece.line_count - offset)
    ELSE [value |-> -1, panic |-> FALSE]

\* log_engine_search on a non-null engine and a non-null query.
search(e, query, start_line) ==
    IF query = <<>> THEN [value |-> -1, panic |-> FALSE]
    ELSE LET found == find_piece_idx(e, start_line)
         IN  SearchLoop(e, query, found[1], found[2], start_line)

\* The loop of log_engine_search_backward reporting the first line of the
\* range searched in a piece instead of the line of the match.
RECURSIVE BackwardLoop_first_line(_, _, _, _, _)
BackwardLoop_first_line(e, q, piece_idx, offset, current_logical) ==
    LET piece == e.pieces[piece_idx + 1]
        bytes == get_original_bytes(e, piece.start, offset + 1)
        hits == {i \in 0 .. offset :
                    Contains(e.memory_buffer[piece.start + i + 1], Lossy(q))}
    IN  IF piece.kind = "Original" /\ RFind(bytes, q) >= 0
        THEN [value |-> current_logical - offset, panic |-> FALSE]
        ELSE IF piece.kind = "Memory" /\ hits # {}
        THEN [value |-> current_logical - offset, panic |-> FALSE]
        ELSE IF piece_idx = 0 THEN [value |-> -1, panic |-> FALSE]
        ELSE BackwardLoop_first_line(e, q, piece_idx - 1,
                                     Max(e.pieces[piece_idx].line_count - 1, 0),
                                     Max(current_logical - (offset + 1), 0))

\* The loop of log_engine_search_backward, entered at a piece that exists.
RECURSIVE BackwardLoop(_, _, _, _, _)
BackwardLoop(e, q, piece_idx, offset, current_logical) ==
    LET piece == e.pieces[piece_idx + 1]
        bytes == get_original_bytes(e, piece.start, offset + 1)
        pos == RFind(bytes, q)
        hits == {i \in 0 .. offset :
                    Contains(e.memory_buffer[piece.start + i + 1], Lossy(q))}
        bad == IF piece.kind = "Original"
               THEN OriginalBytesPanics(e, piece.start, offset + 1)
               ELSE piece.start + offset + 1 > Len(e.memory_buffer)
        \* current_logical - offset is an unsigned subtraction
        under == current_logical < offset
    IN  IF bad THEN [value |-> -1, panic |-> TRUE]
        ELSE IF piece.kind = "Original" /\ pos >= 0
        THEN [value |-> current_logical - offset + CountTerminators(Slice(bytes, 0, pos)),
              panic |-> under]
        ELSE IF piece.kind = "Memory" /\ hits # {}
        THEN [value |-> current_logical - offset
                        + (CHOOSE i \in hits : \A j \in hits : i >= j),
              panic |-> under]
        ELSE IF piece_idx = 0 THEN [value |-> -1, panic |-> FALSE]
        ELSE BackwardLoop(e, q, piece_idx - 1,
                          Max(e.pieces[piece_idx].line_count - 1, 0),
                          Max(current_logical - (offset + 1), 0))

\* log_engine_search_backward on a non-null engine and a non-null query.
\* A start past the end is moved to the last piece; engine.pieces[piece_idx]
\* is then indexed without a bounds check of the table being non-empty.
search_backward(e, query, start_line) ==
    IF query = <<>> THEN [value |-> -1, panic |-> FALSE]
    ELSE LET found == find_piece_idx(e, start_line)
             past == found[1] >= Len(e.pieces)
             piece_idx == IF past THEN Max(Len(e.pieces) - 1, 0) ELSE found[1]
         IN  IF piece_idx >= Len(e.pieces) THEN [value |-> -1, panic |-> TRUE]
             ELSE LET offset == IF past
                                THEN Max(e.pieces[piece_idx + 1].line_count - 1, 0)
                                ELSE found[2]
                  IN  BackwardLoop(e, query, piece_idx, offset, start_line)

\* ------------------------------------------------------------------- save

\* What save would write for one piece if a segment that ends with CR were
\* left as it is.
PieceBytes_cr_kept(e, piece) ==
    IF piece.kind = "Original"
    THEN LET bytes == get_original_bytes(e, piece.start, piece.line_count)
         IN  IF bytes # <<>> /\ bytes[Len(bytes)] \notin {LF, CR} THEN Append(bytes, LF)
             ELSE bytes
    ELSE PushMemoryLines(e.memory_buffer, piece.start, piece.line_count)

\* What save writes for one piece.
PieceBytes(e, piece) ==
    IF piece.kind = "Original"
    THEN LET bytes == get_original_bytes(e, piece.start, piece.line_count)
         IN  IF bytes # <<>> /\ bytes[Len(bytes)] # LF THEN Append(bytes, LF)
             ELSE bytes
    ELSE PushMemoryLines(e.memory_buffer, piece.start, piece.line_count)

\* The bytes save has handed to the writer after the first n pieces.
RECURSIVE SaveBytes(_, _)
SaveBytes(e, n) ==
    IF n = 0 THEN <<>>
    ELSE SaveBytes(e, n - 1) \o PieceBytes(e, e.pieces[n])

\* ------------------------------------------------------------------ state

VARIABLES
    mmap,                  \* the mapped bytes of the opened file
    chunk_size,            \* the window size the index was built with
    chunks,                \* Vec<ChunkMeta>
    original_total_lines,
    pieces,                \* Vec<Piece>
    memory_buffer,         \* Vec<String>, one entry per line
    last_block,            \* the buffer get_block hands out
    bsearch_pick,          \* which of several equal checkpoints the binary search returns
    aborted,               \* a call has panicked: the process is gone
    edits,                 \* apply_edit calls made so far
    dest,                  \* content of the path given to save, or Absent
    tmp,                   \* content of the sibling path.tmp, or Absent
    reopened,              \* the engines opened on the saved path: none or one
    last                   \* the last call: its name, arguments and result

vars == <<mmap, chunk_size, chunks, original_total_lines, pieces, memory_buffer,
          last_block, bsearch_pick, aborted, edits, dest, tmp, reopened, last>>

fixed_vars == <<mmap, chunk_size, chunks, original_total_lines, bsearch_pick>>
disk_vars == <<dest, tmp, reopened>>

\* A path that names no file.
Absent == <<-1>>

\* The engine value the variables hold.
Engine ==
    [mmap |-> mmap, chunks |-> chunks, original_total_lines |-> original_total_lines,
     pieces |-> pieces, memory_buffer |-> memory_buffer, pick |-> bsearch_pick]

\* log_engine_new on a readable file.
Init ==
    \E m \in Files, cs \in ChunkSizes, pk \in Picks :
        LET e == NewEngine(m, cs, pk)
        IN  /\ mmap = m
            /\ chunk_size = cs
            /\ chunks = e.chunks
            /\ original_total_lines = e.original_total_lines
            /\ pieces = e.pieces
            /\ memory_buffer = e.memory_buffer
            /\ bsearch_pick = pk
            /\ last_block = <<>>
            /\ aborted = FALSE
            /\ edits = 0
            /\ dest = Absent
            /\ tmp = Absent
            /\ reopened = <<>>
            /\ last = [op |-> "new"]

\* Line numbers the host passes: every line of the document and two past
\* its end.
StartArgs == 0 .. total_lines(Engine) + 1
CountArgs == 0 .. MaxCount

\* log_engine_apply_edit with a text of `texts`.
ApplyEditOf(texts) ==
    /\ ~aborted
    /\ edits < MaxEdits
    /\ \E start_line \in StartArgs, num_deleted \in CountArgs, new_text \in texts :
        LET e == apply_edit(Engine, start_line, num_deleted, new_text)
        IN  /\ pieces' = e.pieces
            /\ memory_buffer' = e.memory_buffer
            /\ last' = [op |-> "apply_edit", start_line |-> start_line,
                        num_deleted |-> num_deleted, new_text |-> new_text,
                        before |-> Engine]
    /\ edits' = edits + 1
    /\ UNCHANGED <<fixed_vars, disk_vars, last_block, aborted>>

\* log_engine_apply_edit: the host passes one of its texts or the block it
\* has last read.
ApplyEdit == ApplyEditOf(Texts \cup {last_block})

\* log_engine_total_lines
TotalLines ==
    /\ ~aborted
    /\ last' = [op |-> "total_lines", ret |-> total_lines(Engine)]
    /\ UNCHANGED <<fixed_vars, disk_vars, pieces, memory_buffer, last_block,
                   aborted, edits>>

\* log_engine_get_block: the result is the pointer (null or not) and the
\* length written through out_len, which is last_block's length.
GetBlock ==
    /\ ~aborted
    /\ \E start_line \in StartArgs, num_lines \in CountArgs :
        LET r == get_block(Engine, start_line, num_lines)
        IN  /\ aborted' = r.panic
            /\ last_block' = r.block
            /\ last' = [op |-> "get_block", start_line |-> start_line,
                        num_lines |-> num_lines, null |-> r.null,
                        out_len |-> Len(r.block)]
    /\ UNCHANGED <<fixed_vars, disk_vars, pieces, memory_buffer, edits>>

\* log_engine_search with a query of `queries`.
SearchOf(queries) ==
    /\ ~aborted
    /\ \E query \in queries, start_line \in StartArgs :
        LET r == search(Engine, query, start_line)
        IN  /\ aborted' = r.panic
            /\ last' = [op |-> "search", query |-> query,
                        start_line |-> start_line, ret |-> r.value]
    /\ UNCHANGED <<fixed_vars, disk_vars, pieces, memory_buffer, last_block, edits>>

\* log_engine_search
Search == SearchOf(Queries)

\* log_engine_search_backward with a query of `queries`.
SearchBackwardOf(queries) ==
    /\ ~aborted
    /\ \E query \in queries, start_line \in StartArgs :
        LET r == search_backward(Engine, query, start_line)
        IN  /\ aborted' = r.panic
            /\ last' = [op |-> "search_backward", query |-> query,
                        start_line |-> start_line, ret |-> r.value]
    /\ UNCHANGED <<fixed_vars, disk_vars, pieces, memory_buffer, last_block, edits>>

\* log_engine_search_backward
SearchBackward == SearchBackwardOf(Queries)

\* log_engine_save writing to the path itself instead of path.tmp: a failed
\* write or flush leaves in it the bytes of the pieces written before.
Save_in_place ==
    /\ ~aborted
    /\ \E fail \in {"none", "open", "write", "flush"} :
        /\ \/ /\ fail = "none"
              /\ dest' = SaveBytes(Engine, Len(pieces))
           \/ /\ fail = "open"
              /\ UNCHANGED dest
           \/ /\ fail \in {"write", "flush"}
              /\ \E n \in 0 .. Len(pieces) :
                    /\ fail = "write" => n < Len(pieces)
                    /\ dest' = SaveBytes(Engine, n)
        /\ last' = [op |-> "save", ret |-> fail = "none", dest_before |-> dest]
    /\ UNCHANGED <<fixed_vars, pieces, memory_buffer, last_block, aborted, edits,
                   reopened, tmp>>

\* log_engine_save: the steps that can fail are opening path.tmp, a write,
\* the flush and the rename.  A failed write or flush leaves in path.tmp the
\* bytes of the pieces written before it.
Save ==
    /\ ~aborted
    /\ \E fail \in {"none", "open", "write", "flush", "rename"} :
        LET all == SaveBytes(Engine, Len(pieces))
        IN  /\ \/ /\ fail = "none"
                  /\ dest' = all
                  /\ tmp' = Absent
               \/ /\ fail = "open"
                  /\ UNCHANGED <<dest, tmp>>
               \/ /\ fail \in {"write", "flush"}
                  /\ \E n \in 0 .. Len(pieces) :
                        /\ fail = "write" => n < Len(pieces)
                        /\ tmp' = SaveBytes(Engine, n)
                  /\ UNCHANGED dest
               \/ /\ fail = "rename"
                  /\ tmp' = all
                  /\ UNCHANGED dest
            /\ last' = [op |-> "save", ret |-> fail = "none", dest_before |-> dest]
    /\ UNCHANGED <<fixed_vars, pieces, memory_buffer, last_block, aborted, edits,
                   reopened>>

\* log_engine_new on the path of the last save: a second engine.
Reopen ==
    /\ ~aborted
    /\ dest # Absent
    /\ reopened' = <<NewEngine(dest, chunk_size, bsearch_pick)>>
    /\ last' = [op |-> "reopen", fresh |-> last.op = "save" /\ last.ret]
    /\ UNCHANGED <<fixed_vars, pieces, memory_buffer, last_block, aborted, edits,
                   dest, tmp>>

\* The edits alone.
NextEdit == ApplyEdit

SpecEdit == Init /\ [][NextEdit]_vars

\* Edits, the line count and block extraction.
NextBlock ==
    \/ ApplyEdit
    \/ TotalLines
    \/ GetBlock

SpecBlock == Init /\ [][NextBlock]_vars

\* Edits and the two searches.
NextSearch ==
    \/ ApplyEdit
    \/ Search
    \/ SearchBackward

SpecSearch == Init /\ [][NextSearch]_vars

\* Edits, save and reopening the saved file.
NextSave ==
    \/ ApplyEdit
    \/ Save
    \/ Reopen

SpecSave == Init /\ [][NextSave]_vars

\* Edits and the two searches with queries that may hold a terminator.
SearchBreaks == SearchOf(BreakQueries)
SearchBackwardBreaks == SearchBackwardOf(BreakQueries)

NextSearchBreaks ==
    \/ ApplyEdit
    \/ SearchBreaks
    \/ SearchBackwardBreaks

SpecSearchBreaks == Init /\ [][NextSearchBreaks]_vars

\* A file that is opened, counted, saved as it is and opened again.
NextOpen ==
    \/ TotalLines
    \/ Save
    \/ Reopen

SpecOpen == Init /\ [][NextOpen]_vars

\* log_engine_new on the file of the worked example.
InitScenario ==
    \E pk \in Picks :
        LET e == NewEngine(ScenarioFile, ChunkSize, pk)
        IN  /\ mmap = ScenarioFile
            /\ chunk_size = ChunkSize
            /\ chunks = e.chunks
            /\ original_total_lines = e.original_total_lines
            /\ pieces = e.pieces
            /\ memory_buffer = e.memory_buffer
            /\ bsearch_pick = pk
            /\ last_block = <<>>
            /\ aborted = FALSE
            /\ edits = 0
            /\ dest = Absent
            /\ tmp = Absent
            /\ reopened = <<>>
            /\ last = [op |-> "new"]

\* The calls of the worked example.
ScenarioEdit == ApplyEditOf(ScenarioTexts)
ScenarioSearchBackward == SearchBackwardOf(ScenarioQueries)

NextScenario ==
    \/ ScenarioEdit
    \/ ScenarioSearchBackward

SpecScenario == InitScenario /\ [][NextScenario]_vars

\* Every operation of the host boundary.
Next ==
    \/ ApplyEdit
    \/ TotalLines
    \/ GetBlock
    \/ Search
    \/ SearchBackward
    \/ Save
    \/ Reopen

Spec == Init /\ [][Next]_vars

\* ------------------------------------------------- the document, as read

\* The lines of a file by the terminator rule: a line ends at an LF, at a
\* CR LF pair or at a CR that no LF follows; bytes after the last
\* terminator are a final line.  Each line is given without its terminator.
RECURSIVE TrueLinesFrom(_, _, _)
TrueLinesFrom(m, from, at) ==
    IF at > Len(m)
    THEN IF from < at THEN <<SubSeq(m, from, Len(m))>> ELSE <<>>
    ELSE IF m[at] = LF
    THEN <<SubSeq(m, from, at - 1)>> \o TrueLinesFrom(m, at + 1, at + 1)
    ELSE IF m[at] = CR
    THEN IF at < Len(m) /\ m[at + 1] = LF
         THEN <<SubSeq(m, from, at - 1)>> \o TrueLinesFrom(m, at + 2, at + 2)
         ELSE <<SubSeq(m, from, at - 1)>> \o TrueLinesFrom(m, at + 1, at + 1)
    ELSE TrueLinesFrom(m, from, at + 1)

TrueLines(m) == TrueLinesFrom(m, 1, 1)

\* A logical line of the document: line `line` of the original, or a line
\* of text held in the edit buffer.
OriginalLine(k) == [kind |-> "Original", line |-> k, text |-> <<>>]
MemoryLine(t) == [kind |-> "Memory", line |-> 0, text |-> t]

RECURSIVE PieceLines(_, _, _)
PieceLines(e, piece, i) ==
    IF i >= piece.line_count THEN <<>>
    ELSE <<IF piece.kind = "Original" THEN OriginalLine(piece.start + i)
           ELSE MemoryLine(e.memory_buffer[piece.start + i + 1])>>
         \o PieceLines(e, piece, i + 1)

RECURSIVE DocumentOf(_, _)
DocumentOf(e, n) ==
    IF n = 0 THEN <<>>
    ELSE DocumentOf(e, n - 1) \o PieceLines(e, e.pieces[n], 0)

\* The logical line sequence of the document an engine holds.
Document(e) == DocumentOf(e, Len(e.pieces))

\* The content of a logical line.
LineText(e, l) ==
    IF l.kind = "Memory" THEN l.text
    ELSE IF l.line < Len(TrueLines(e.mmap)) THEN TrueLines(e.mmap)[l.line + 1]
    ELSE <<>>

\* The content of logical line L (0-based) of the document.
DocLine(e, L) == LineText(e, Document(e)[L + 1])

\* text split on LF with one trailing empty element dropped: line i is
\* what lies between the (i-1)-th and the i-th LF, and what follows the
\* last LF is a line unless it is empty.
LFAt(text) == {i \in 1 .. Len(text) : text[i] = LF}
NthLF(text, i) ==
    IF i = 0 THEN 0
    ELSE IF i > Cardinality(LFAt(text)) THEN Len(text) + 1
    ELSE CHOOSE p \in LFAt(text) : Cardinality({o \in LFAt(text) : o < p}) = i - 1
LinesOfText(text) ==
    LET n == Cardinality(LFAt(text))
            + (IF text # <<>> /\ text[Len(text)] # LF THEN 1 ELSE 0)
    IN  [i \in 1 .. n |-> SubSeq(text, NthLF(text, i - 1) + 1, NthLF(text, i) - 1)]

\* ----------------------------------------------------------------- claims

CountLF(bytes) == Cardinality({i \in 1 .. Len(bytes) : bytes[i] = LF})

\* C2: for start < T and n >= 1, get_block(start, n) holds exactly
\* min(n, T - start) lines, each terminated by LF: the bytes end with LF and
\* hold exactly min(n, T - start) LF bytes.
C2_BlockLinesEndWithLF ==
    (/\ last.op = "get_block"
     /\ last.num_lines >= 1
     /\ last.start_line < total_lines(Engine)) =>
        /\ ~aborted
        /\ ~last.null
        /\ last_block # <<>>
        /\ last_block[Len(last_block)] = LF
        /\ CountLF(last_block)
             = Min(last.num_lines, total_lines(Engine) - last.start_line)

\* The logical lines L with lo <= L <= hi whose content contains q.
LinesWith(e, q, lo, hi) ==
    {L \in lo .. hi : L < Len(Document(e)) /\ Contains(DocLine(e, L), q)}

HasTerminator(q) == \E i \in 1 .. Len(q) : q[i] \in {LF, CR}

\* C3: for a non-empty query q without CR or LF, search(q, s) is the least
\* line L >= s whose content contains q, and -1 when there is none.
C3_SearchFindsFirstLine ==
    (/\ last.op = "search"
     /\ last.query # <<>>
     /\ ~HasTerminator(last.query)) =>
        LET T == total_lines(Engine)
            found == LinesWith(Engine, last.query, last.start_line, T - 1)
        IN  /\ ~aborted
            /\ last.ret = IF found = {} THEN -1
                          ELSE CHOOSE L \in found : \A o \in found : L <= o

\* C4: for T >= 1, s < T and a non-empty query q without CR or LF,
\* search_backward(q, s) is the greatest line L <= s whose content
\* contains q, and -1 when there is none.
C4_BackwardFindsLastLine ==
    (/\ last.op = "search_backward"
     /\ last.query # <<>>
     /\ ~HasTerminator(last.query)
     /\ last.start_line < total_lines(Engine)) =>
        LET found == LinesWith(Engine, last.query, 0, last.start_line)
        IN  /\ ~aborted
            /\ last.ret = IF found = {} THEN -1
                          ELSE CHOOSE L \in found : \A o \in found : L >= o

\* C5: after a successful save and a reopen of the saved path, the new
\* engine has the same total_lines and renders every line as the old one.
C5_SaveReopenPreserves ==
    (last.op = "reopen" /\ last.fresh) =>
        /\ total_lines(reopened[1]) = total_lines(Engine)
        /\ \A L \in 0 .. total_lines(Engine) - 1 :
              get_block(reopened[1], L, 1) = get_block(Engine, L, 1)

\* C6: no call aborts the engine.
C6_NeverAborts == ~aborted

\* C7: a query that occurs in no line of the document makes both searches
\* return -1 from every starting line.  The queries are those without a
\* terminator byte, for which occurring in the document is occurring in one
\* of its lines.
C7_NoMatchReturnsMinusOne ==
    (/\ last.op \in {"search", "search_backward"}
     /\ last.query # <<>>
     /\ ~HasTerminator(last.query)
     /\ LinesWith(Engine, last.query, 0, total_lines(Engine) - 1) = {}) =>
        /\ ~aborted
        /\ last.ret = -1

\* C8: for T >= 1 and s >= T, search_backward(q, s) equals
\* search_backward(q, T - 1); a result >= 0 is below T and names a line
\* that contains q.
C8_BackwardClampsStart ==
    (/\ last.op = "search_backward"
     /\ total_lines(Engine) >= 1
     /\ last.start_line >= total_lines(Engine)) =>
        LET T == total_lines(Engine)
        IN  /\ ~aborted
            /\ last.ret = search_backward(Engine, last.query, T - 1).value
            /\ last.ret >= 0 =>
                  /\ last.ret < T
                  /\ Contains(DocLine(Engine, last.ret), last.query)

\* get_block(L, 1) ++ ... ++ get_block(L + n - 1, 1)
RECURSIVE SingleBlocks(_, _, _)
SingleBlocks(e, L, n) ==
    IF n = 0 THEN <<>>
    ELSE get_block(e, L, 1).block \o SingleBlocks(e, L + 1, n - 1)

\* C9: for n >= 1 and L + n <= total_lines, get_block(L, n) is the
\* concatenation of get_block(L, 1), ..., get_block(L + n - 1, 1).
C9_BlockIsCompositional ==
    (/\ last.op = "get_block"
     /\ last.num_lines >= 1
     /\ last.start_line + last.num_lines <= total_lines(Engine)) =>
        /\ ~aborted
        /\ last_block = SingleBlocks(Engine, last.start_line, last.num_lines)

\* C10: apply_edit(L, 0, "") changes neither total_lines nor the bytes of
\* any get_block(s, n).
C10_EmptyEditIsNoOp ==
    (/\ last.op = "apply_edit"
     /\ last.num_deleted = 0
     /\ last.new_text = <<>>) =>
        /\ total_lines(Engine) = total_lines(last.before)
        /\ \A s \in StartArgs, n \in CountArgs :
              get_block(Engine, s, n) = get_block(last.before, s, n)

\* The terminators of a file: every LF, and every CR that no LF follows.
TerminatorAt(m) ==
    {i \in 1 .. Len(m) : \/ m[i] = LF
                         \/ m[i] = CR /\ ~(i < Len(m) /\ m[i + 1] = LF)}

\* The lines of a file: its terminators, and one more for bytes after the
\* last terminator.
FileLineCount(m) ==
    Cardinality(TerminatorAt(m))
        + (IF Len(m) > 0 /\ m[Len(m)] \notin {LF, CR} THEN 1 ELSE 0)

\* C11: total_lines of a freshly opened file is the number of terminators
\* of the whole file, plus one when the file is non-empty and ends with
\* neither LF nor CR, whatever the window size of the index.
C11_LineCountIgnoresChunking ==
    /\ last.op = "new" => total_lines(Engine) = FileLineCount(mmap)
    /\ (last.op = "total_lines" /\ edits = 0) => last.ret = FileLineCount(mmap)
    /\ reopened # <<>> => total_lines(reopened[1]) = FileLineCount(reopened[1].mmap)
    /\ \A cs \in ChunkSizes :
          OriginalTotalLines(mmap, cs) = FileLineCount(mmap)

\* C11 witness: a saved file is opened whose CR is the last byte of the
\* first window and whose LF is the first byte of the second.
C11_Witness ==
    /\ last.op = "reopen"
    /\ chunk_size = SmallChunk
    /\ Len(reopened[1].mmap) > SmallChunk
    /\ reopened[1].mmap[SmallChunk] = CR
    /\ reopened[1].mmap[SmallChunk + 1] = LF
    /\ total_lines(reopened[1]) = 1

\* The lines of a sequence, each followed by LF.
RECURSIVE JoinLF(_)
JoinLF(lines) ==
    IF lines = <<>> THEN <<>> ELSE Head(lines) \o <<LF>> \o JoinLF(Tail(lines))

\* The segment of the mapping the line resolver delimits for an Original
\* piece.
Segment(e, piece) ==
    IF piece.line_count = 0 THEN <<>>
    ELSE SubSeq(e.mmap, line_to_byte_offset(e, piece.start) + 1,
                line_to_byte_offset(e, piece.start + piece.line_count))

\* The file in which the pieces from the i-th on are written in order: an
\* Original piece as its segment, followed by LF when the segment is not
\* empty and its last byte is not in `ends`; a Memory piece as its lines,
\* each followed by LF.
RECURSIVE Serialised(_, _, _)
Serialised(e, i, ends) ==
    IF i > Len(e.pieces) THEN <<>>
    ELSE LET piece == e.pieces[i]
             seg == Segment(e, piece)
             own == IF piece.kind = "Original"
                    THEN seg \o (IF seg # <<>> /\ seg[Len(seg)] \notin ends
                                 THEN <<LF>> ELSE <<>>)
                    ELSE JoinLF(SubSeq(e.memory_buffer, piece.start + 1,
                                       piece.start + piece.line_count))
         IN  own \o Serialised(e, i + 1, ends)

\* C12, as claimed: a successful save writes every Original piece as its
\* segment and appends LF only when the segment ends with neither LF nor
\* CR; every memory line is followed by one LF.
C12_NoLFAfterCR ==
    (last.op = "save" /\ last.ret) => dest = Serialised(Engine, 1, {LF, CR})

\* C12, amended: a successful save writes every Original piece as its
\* segment and appends LF exactly when the segment is not empty and does
\* not end with LF, so a segment ending in CR is followed by LF; every
\* memory line is followed by one LF.
C12_LFUnlessSegmentEndsWithLF ==
    (last.op = "save" /\ last.ret) => dest = Serialised(Engine, 1, {LF})

\* C12 witness: a successful save of a document with a memory piece and an
\* Original piece whose segment ends with CR.
C12_Witness ==
    /\ last.op = "save"
    /\ last.ret
    /\ \E i, j \in 1 .. Len(pieces) :
          /\ pieces[i].kind = "Memory"
          /\ pieces[j].kind = "Original"
          /\ Segment(Engine, pieces[j]) # <<>>
          /\ Segment(Engine, pieces[j])[Len(Segment(Engine, pieces[j]))] = CR

\* The engine of the worked example after apply_edit(1, 0, "foo\n").
ScenarioEdited ==
    apply_edit(NewEngine(ScenarioFile, ChunkSize, bsearch_pick), 1, 0, Foo \o <<LF>>)

\* A backward search for "foo" from line s in the edited worked example.
ScenarioSearched(s) ==
    /\ Engine = ScenarioEdited
    /\ last.op = "search_backward"
    /\ last.query = Foo
    /\ last.start_line = s

\* C13, as claimed: in the worked example search_backward("foo", 3) is 2
\* and search_backward("foo", 1) is 1.
C13_BackwardFromThreeIsTwo ==
    /\ ScenarioSearched(3) => last.ret = 2
    /\ ScenarioSearched(1) => last.ret = 1

\* C13, amended: in the worked example search_backward("foo", 3) is 3, the
\* last line of the document, which is "foo", and search_backward("foo", 1)
\* is 1.
C13_BackwardFromThreeIsThree ==
    /\ ScenarioSearched(3) => last.ret = 3 /\ DocLine(Engine, 3) = Foo
    /\ ScenarioSearched(1) => last.ret = 1 /\ DocLine(Engine, 1) = Foo

\* C13 witness: the search from line 3 has been made on the edited
\* example, whose pieces are an Original, a Memory and an Original piece.
C13_Witness ==
    /\ ScenarioSearched(3)
    /\ Len(pieces) = 3
    /\ pieces[2].kind = "Memory"
    /\ last.ret = 3

\* C14: if search(q, 0) = L >= 0 for a non-empty query q, with or without
\* terminator bytes, then search_backward(q, total_lines - 1) >= L and
\* search_backward(q, L) = L.
C14_ForwardThenBackward ==
    (/\ last.op = "search"
     /\ last.start_line = 0
     /\ last.query # <<>>
     /\ ~aborted
     /\ last.ret >= 0) =>
        LET T == total_lines(Engine)
            from_end == search_backward(Engine, last.query, T - 1)
            from_hit == search_backward(Engine, last.query, last.ret)
        IN  /\ ~from_end.panic
            /\ from_end.value >= last.ret
            /\ ~from_hit.panic
            /\ from_hit.value = last.ret

\* C15: apply_edit(L, n, text) with L + n <= total_lines and text the
\* content of lines [L, L + n) as get_block(L, n) returns it leaves the
\* bytes that save writes as they were.
C15_ReplaceByOwnContent ==
    (/\ last.op = "apply_edit"
     /\ last.start_line + last.num_deleted <= total_lines(last.before)
     /\ last.new_text
          = get_block(last.before, last.start_line, last.num_deleted).block) =>
        SaveBytes(Engine, Len(pieces))
            = SaveBytes(last.before, Len(last.before.pieces))

\* C16: a call of save leaves the piece table and the edit buffer as they
\* are; when it returns false the destination holds what it held before
\* the call; when it returns true the destination holds every piece of the
\* document, serialised in order.
C16_SaveIsAllOrNothing ==
    [][last'.op = "save" =>
          /\ pieces' = pieces
          /\ memory_buffer' = memory_buffer
          /\ ~last'.ret => dest' = dest
          /\ last'.ret => dest' = Serialised(Engine, 1, {LF})]_vars

\* C16 witness: a save has failed after an earlier save had succeeded and
\* the document had been edited; path.tmp holds a part of the new document
\* and the destination still holds the old one.
C16_Witness ==
    /\ last.op = "save"
    /\ ~last.ret
    /\ dest # Absent
    /\ dest = last.dest_before
    /\ dest # SaveBytes(Engine, Len(pieces))
    /\ tmp # Absent
    /\ tmp # <<>>
    /\ tmp # SaveBytes(Engine, Len(pieces))

\* The offset of the first byte of line L of a file: 0 for line 0, otherwise
\* the offset just after the L-th terminator.
LineStart(m, L) ==
    IF L = 0 THEN 0
    ELSE CHOOSE p \in TerminatorAt(m) :
             Cardinality({o \in TerminatorAt(m) : o < p}) = L - 1

\* The line resolver of an engine is right about every original line.
ResolvesEveryLine(e) ==
    \A L \in 0 .. e.original_total_lines + 1 :
        line_to_byte_offset(e, L)
            = IF L < e.original_total_lines THEN LineStart(e.mmap, L)
              ELSE Len(e.mmap)

\* C17: for every original line L, line_to_byte_offset(L) is the offset of
\* the first byte of line L, also when a checkpoint has start_line = L
\* because the line runs from one window into the next; from
\* original_total_lines on it is the length of the mapping.
C17_ResolverFindsLineStart ==
    /\ ResolvesEveryLine(Engine)
    /\ reopened # <<>> => ResolvesEveryLine(reopened[1])

\* The number of the first line of a file that begins at or after offset b
\* (the number of lines when none does): the lines that begin before b.
FirstLineAtOrAfter(m, b) ==
    Cardinality({L \in 0 .. FileLineCount(m) - 1 : LineStart(m, L) < b})

\* The checkpoints of an engine built with window size cs mean what they
\* are said to mean.
CheckpointsMeanLineStarts(e, cs) ==
    \A i \in 1 .. Len(e.chunks) :
        /\ e.chunks[i].byte_offset = (i - 1) * cs
        /\ e.chunks[i].start_line = FirstLineAtOrAfter(e.mmap, (i - 1) * cs)
        /\ i > 1 => e.chunks[i - 1].start_line <= e.chunks[i].start_line

\* C18: the i-th checkpoint has byte_offset = i * chunk_size and start_line
\* the number of the first original line that begins at or after that
\* offset, and the start_line values do not decrease.
C18_CheckpointIsFirstLineAtOrAfter ==
    /\ CheckpointsMeanLineStarts(Engine, chunk_size)
    /\ reopened # <<>> => CheckpointsMeanLineStarts(reopened[1], chunk_size)

\* C19: every piece of the piece table has line_count >= 1; the piece
\* table of an empty file is empty when the file has been opened.
C19_NoZeroLengthPiece ==
    /\ \A i \in 1 .. Len(pieces) : pieces[i].line_count >= 1
    /\ (last.op = "new" /\ mmap = <<>>) => pieces = <<>>

ShownDocument(e) == get_block(e, 0, total_lines(e))

====
